---- MODULE Spec2Model ----
(***************************************************************************)
(* Model of jcdotter/pub: the go.mod scanner (parse.go), the version       *)
(* splicer (updateModVersion), the version decision (pub.go) and the       *)
(* publish workflow (Publish / updateVersion).                             *)
(*                                                                         *)
(* A byte is a one-character string.  A Go []byte is a record              *)
(*   [data |-> <<bytes within len>>, spare |-> <<bytes between len, cap>>] *)
(* so that len(b) = Len(b.data) and cap(b) = Len(b.data) + Len(b.spare).   *)
(* Offsets are the 0-based offsets of the Go code.  A run-time panic       *)
(* (index or slice bounds out of range) is a result with panic = TRUE.     *)
(***************************************************************************)
EXTENDS Integers, Sequences, FiniteSets, TLC

VARIABLES
    pc,      \* position of the run of the specification in use
    buf,     \* the caller's buffer ([]byte read from go.mod)
    shape,   \* how buf was written: the pieces of the declaration line
    res,     \* result of parseMod(buf, 0)
    upd,     \* arguments and result of updateModVersion
    res2,    \* result of parseMod on the updated buffer
    upd2,    \* result of the second updateModVersion
    ver,     \* version decision: inputs cv, uv; outputs nv, valid of
             \* assessVersion; syntax, the result of validVersion(uv)
    pub      \* publish workflow: the go.mod file, the user's version, what
             \* updateVersion found and returned, and the messages printed,
             \* updateModFile calls made and commands run so far

vars == <<pc, buf, shape, res, upd, res2, upd2, ver, pub>>

-----------------------------------------------------------------------------
(* parse.go constants *)

lin == "\n"
ret == "\r"
tab == "\t"
spc == " "
esc == "\\"
aps == "'"
qot == "\""
com == "/"
mod == <<"m", "o", "d", "u", "l", "e", " ">>
pre == <<"/", "/", "v">>

\* a byte of the backing array past len that nobody wrote
NUL == "0x00"

-----------------------------------------------------------------------------
(* Go slices *)

len(b) == Len(b.data)
cap(b) == Len(b.data) + Len(b.spare)

\* b[i] for i within len
At(b, i) == b.data[i + 1]

\* i is a legal index of b
InRange(b, i) == i >= 0 /\ i < len(b)

\* the bytes of b[lo:hi] for 0 <= lo <= hi <= cap(b): the backing array is
\* read, so bytes past len are visible
Slice(b, lo, hi) == SubSeq(b.data \o b.spare, lo + 1, hi)

Ok(v) == [panic |-> FALSE, val |-> v]
Panic == [panic |-> TRUE, val |-> 0]

-----------------------------------------------------------------------------
(* parse.go: character classes and the scanner's helpers *)

Digits == {"0", "1", "2", "3", "4", "5", "6", "7", "8", "9"}

RECURSIVE search(_, _, _)
search(c, in, at) ==
    IF at < len(in) /\ At(in, at) # c THEN search(c, in, at + 1) ELSE at

isspace(c) == c = ret \/ c = lin \/ c = tab \/ c = spc

isnum(c) == c \in Digits

\* b[at] == com && b[at+1] == com, each index checked against len
iscomm(b, at) ==
    IF ~InRange(b, at) THEN Panic
    ELSE IF At(b, at) # com THEN Ok(FALSE)
    ELSE IF ~InRange(b, at + 1) THEN Panic
    ELSE Ok(At(b, at + 1) = com)

skipComment(b, at) ==
    LET c == iscomm(b, at) IN
    IF c.panic THEN Panic
    ELSE IF c.val THEN Ok(search(lin, b, at + 2))
    ELSE Ok(at)

RECURSIVE next(_, _, _)
next(b, at, skipcom) ==
    IF at >= len(b) THEN Ok(at)
    ELSE LET c == At(b, at) IN
         IF skipcom /\ c = com
         THEN LET s == skipComment(b, at) IN
              IF s.panic THEN Panic ELSE next(b, s.val + 1, skipcom)
         ELSE IF isspace(c) THEN next(b, at + 1, skipcom)
         ELSE Ok(at)

-----------------------------------------------------------------------------
(* pub.go: validVersion *)

validVersion(b) ==
    IF Len(b) > 4 /\ isnum(b[1]) /\ isnum(b[Len(b)])
    THEN \A i \in 1..Len(b) : isnum(b[i]) \/ b[i] = "."
    ELSE FALSE

-----------------------------------------------------------------------------
(* parse.go: parseModName, parseModVersion, parseMod *)

NoName == [panic |-> TRUE, name |-> <<>>, i |-> 0]

\* the loop of parseModName: the first i at which b[i] is a space or starts a
\* comment, or len(b)
RECURSIVE nameEnd(_, _)
nameEnd(b, i) ==
    IF i >= len(b) THEN Ok(i)
    ELSE IF isspace(At(b, i)) THEN Ok(i)
    ELSE LET c == iscomm(b, i) IN
         IF c.panic THEN Panic
         ELSE IF c.val THEN Ok(i)
         ELSE nameEnd(b, i + 1)

unquotedName(b, at, i) ==
    LET e == nameEnd(b, i) IN
    IF e.panic THEN NoName
    ELSE [panic |-> FALSE, name |-> Slice(b, at, e.val), i |-> e.val]

\* parseModName without the quoted branch
parseModNameBare(b, at0) ==
    LET at == next(b, at0, FALSE).val IN
    IF ~InRange(b, at) THEN NoName ELSE unquotedName(b, at, at)

parseModName(b, at0) ==
    LET at == next(b, at0, FALSE).val IN
    IF ~InRange(b, at) THEN NoName
    ELSE LET c == At(b, at) IN
         IF c = aps \/ c = qot
         THEN LET i == search(c, b, at + 1) IN
              IF At(b, i - 1) # esc
              THEN [panic |-> FALSE, name |-> Slice(b, at + 1, i), i |-> i + 1]
              ELSE unquotedName(b, at, i)
         ELSE unquotedName(b, at, at)

NoVersion(at) == [panic |-> FALSE, version |-> <<>>, vlen |-> 0, i |-> at]
VersionPanic == [panic |-> TRUE, version |-> <<>>, vlen |-> 0, i |-> 0]

parseModVersion(b, at) ==
    LET pos == next(b, at, FALSE).val IN
    IF ~InRange(b, pos) THEN VersionPanic
    ELSE IF At(b, pos) # com THEN NoVersion(at)
    ELSE IF pos + Len(pre) > cap(b) THEN VersionPanic
    ELSE IF Slice(b, pos, pos + Len(pre)) # pre THEN NoVersion(at)
    ELSE LET p == pos + Len(pre)
             i == search(lin, b, p)
             v == Slice(b, p, i)
         IN  IF validVersion(v)
             THEN [panic |-> FALSE, version |-> v, vlen |-> i - at, i |-> at]
             ELSE NoVersion(at)

ModResult(name, version, vlen, i) ==
    [panic |-> FALSE, name |-> name, version |-> version, vlen |-> vlen, i |-> i]
ModPanic ==
    [panic |-> TRUE, name |-> <<>>, version |-> <<>>, vlen |-> 0, i |-> 0]

RECURSIVE parseModLoop(_, _)
parseModLoop(b, i0) ==
    IF i0 >= len(b) THEN ModResult(<<>>, <<>>, 0, i0)
    ELSE LET n == next(b, i0, TRUE) IN
         IF n.panic THEN ModPanic
         ELSE LET i == n.val IN
              IF len(b) < i + Len(mod) THEN ModResult(<<>>, <<>>, 0, len(b))
              ELSE IF Slice(b, i, i + Len(mod)) = mod
              THEN LET nm == parseModName(b, i + Len(mod)) IN
                   IF nm.panic THEN ModPanic
                   ELSE LET v == parseModVersion(b, nm.i) IN
                        IF v.panic THEN ModPanic
                        ELSE ModResult(nm.name, v.version, v.vlen, v.i)
              ELSE parseModLoop(b, i + 1)

parseMod(b, at) == parseModLoop(b, at)

-----------------------------------------------------------------------------
(* parse.go: updateModVersion, with Go's append *)

RECURSIVE NULs(_)
NULs(n) == IF n = 0 THEN <<>> ELSE <<NUL>> \o NULs(n - 1)

\* make([]byte, 0, n)
make(n) == [data |-> <<>>, spare |-> NULs(n), fresh |-> TRUE]

\* append(s, xs...): written into s's own backing array when it fits within
\* cap(s); otherwise into a newly allocated array, whose spare capacity (grow)
\* is the allocator's choice.  fresh tells whether the array is a new one.
goAppend(s, xs, grow) ==
    IF Len(s.data) + Len(xs) <= Len(s.data) + Len(s.spare)
    THEN [data  |-> s.data \o xs,
          spare |-> SubSeq(s.spare, Len(xs) + 1, Len(s.spare)),
          fresh |-> s.fresh]
    ELSE [data |-> s.data \o xs, spare |-> NULs(grow), fresh |-> TRUE]

\* bytes[:vpos], a slice of the caller's array (not a copy)
headSlice(bytes, vpos) ==
    [data  |-> Slice(bytes, 0, vpos),
     spare |-> Slice(bytes, vpos, cap(bytes)),
     fresh |-> FALSE]

UpdatePanic ==
    [panic |-> TRUE, out |-> [data |-> <<>>, spare |-> <<>>],
     aliased |-> FALSE, input |-> <<>>]

\* updateModVersion that keeps the old annotation: the tail is taken from
\* vpos instead of vpos+vlen
updateModVersionKeepOld(bytes, vpos, vlen, version, grow) ==
    IF vpos < 0 \/ vpos > cap(bytes) THEN UpdatePanic
    ELSE IF vpos + vlen < 0 \/ vpos + vlen > len(bytes) THEN UpdatePanic
    ELSE LET v  == make(len(bytes))
             t3 == goAppend(v, <<spc>> \o pre \o version \o Slice(bytes, vpos, len(bytes)), grow)
             r  == goAppend(headSlice(bytes, vpos), t3.data, grow)
         IN  [panic   |-> FALSE,
              out     |-> [data |-> r.data, spare |-> r.spare],
              aliased |-> ~r.fresh,
              input   |-> IF r.fresh THEN bytes.data
                          ELSE SubSeq(r.data \o r.spare, 1, len(bytes))]

\* out: the returned slice; aliased: out shares the caller's backing array;
\* input: the bytes the caller's slice `bytes` holds after the call
updateModVersion(bytes, vpos, vlen, version, grow) ==
    IF vpos < 0 \/ vpos > cap(bytes) THEN UpdatePanic
    ELSE IF vpos + vlen < 0 \/ vpos + vlen > len(bytes) THEN UpdatePanic
    ELSE LET v  == make(len(bytes))
             t1 == goAppend(v, <<spc>>, grow)
             t2 == goAppend(t1, pre \o version, grow)
             t3 == goAppend(t2, Slice(bytes, vpos + vlen, len(bytes)), grow)
             r  == goAppend(headSlice(bytes, vpos), t3.data, grow)
         IN  [panic   |-> FALSE,
              out     |-> [data |-> r.data, spare |-> r.spare],
              aliased |-> ~r.fresh,
              input   |-> IF r.fresh THEN bytes.data
                          ELSE SubSeq(r.data \o r.spare, 1, len(bytes))]

-----------------------------------------------------------------------------
(* Bounds and input sets of the scanner / round-trip specification *)

MaxNameLen == 2
MaxSpare == 2

RECURSIVE SeqsUpTo(_, _)
SeqsUpTo(S, n) ==
    IF n = 0 THEN {<<>>}
    ELSE LET shorter == SeqsUpTo(S, n - 1) IN
         shorter \cup {Append(s, c) : s \in {t \in shorter : Len(t) = n - 1}, c \in S}

NameChars == {"a", spc, esc, com, qot}
Contents == SeqsUpTo(NameChars, MaxNameLen)
Wraps == {"bare", "dq", "sq", "open"}

Pres == {<<>>,
         <<"/", "/", "c", lin>>,
         <<tab, ret, "/", "x", lin>>}
Seps == {<<>>, <<spc>>}
GoodAnn == <<"/", "/", "v", "1", ".", "2", ".", "3">>
Anns == {<<>>,
         GoodAnn,
         <<"/", "/", "v", "1", ".", "2">>,
         <<"/", "/", spc, "c">>,
         GoodAnn \o <<spc>>,
         <<"/">>,
         <<"/", "/">>,
         <<"b">>}
Tails == {<<>>, <<lin, "g">>}

Spares == {NULs(k) : k \in 0..MaxSpare}
          \cup {SubSeq(pre, Len(pre) - k + 1, Len(pre)) : k \in 1..(IF MaxSpare < 3 THEN MaxSpare ELSE 3)}

NewVersions == {<<"1", ".", "2", ".", "4">>, <<"0", ".", "0", ".", "1", "0">>}

identText(wrap, content) ==
    CASE wrap = "bare" -> content
      [] wrap = "dq"   -> <<qot>> \o content \o <<qot>>
      [] wrap = "sq"   -> <<aps>> \o content \o <<aps>>
      [] wrap = "open" -> <<qot>> \o content

KwShapes ==
    [pre : Pres, kw : {TRUE}, wrap : Wraps, content : Contents,
     sep : Seps, ann : Anns, tail : Tails]
NoKwShapes ==
    [pre : Pres \cup {<<"m", "o", "d", "u", "l", "e">>}, kw : {FALSE},
     wrap : {"bare"}, content : {<<>>, <<"a">>},
     sep : {<<>>}, ann : {<<>>, <<"/">>, GoodAnn}, tail : Tails]

textOf(sh) ==
    sh.pre \o (IF sh.kw THEN mod ELSE <<>>) \o identText(sh.wrap, sh.content)
           \o sh.sep \o sh.ann \o sh.tail

NoBuf == [data |-> <<>>, spare |-> <<>>]
NoShape == [pre |-> <<>>, kw |-> FALSE, wrap |-> "bare", content |-> <<>>,
            sep |-> <<>>, ann |-> <<>>, tail |-> <<>>]
NoUpd == [panic |-> FALSE, out |-> NoBuf, aliased |-> FALSE, input |-> <<>>,
          before |-> <<>>, vpos |-> 0, vlen |-> 0, version |-> <<>>]
NoVer == [cv |-> <<>>, uv |-> <<>>, nv |-> <<>>, valid |-> FALSE, syntax |-> FALSE]
NoPub == [file |-> <<>>, uv |-> <<>>, name |-> <<>>, cv |-> <<>>, nv |-> <<>>,
          valid |-> FALSE, parsed |-> FALSE, assessed |-> FALSE,
          console |-> <<>>, writes |-> <<>>, cmds |-> <<>>]

-----------------------------------------------------------------------------
(* Scanner and round trip: parseMod, updateModVersion, parseMod,           *)
(* updateModVersion, as TestParser chains them                             *)

Init ==
    /\ pc = "start"
    /\ \E sh \in KwShapes \cup NoKwShapes, sp \in Spares :
         /\ shape = sh
         /\ buf = [data |-> textOf(sh), spare |-> sp]
    /\ res = ModPanic
    /\ upd = NoUpd
    /\ res2 = ModPanic
    /\ upd2 = NoUpd
    /\ ver = NoVer
    /\ pub = NoPub

Parse ==
    /\ pc = "start"
    /\ res' = parseMod(buf, 0)
    /\ pc' = IF res'.panic THEN "panic_parse" ELSE "parsed"
    /\ UNCHANGED <<buf, shape, upd, res2, upd2, ver, pub>>

runUpdate(b, vpos, vlen, v, grow) ==
    LET u == updateModVersion(b, vpos, vlen, v, grow) IN
    [panic |-> u.panic, out |-> u.out, aliased |-> u.aliased, input |-> u.input,
     before |-> b.data, vpos |-> vpos, vlen |-> vlen, version |-> v]

Update ==
    /\ pc = "parsed"
    /\ \E v \in NewVersions, grow \in {0, MaxSpare} :
         upd' = runUpdate(buf, res.i, res.vlen, v, grow)
    /\ buf' = [buf EXCEPT !.data = upd'.input]
    /\ pc' = IF upd'.panic THEN "panic_update" ELSE "updated"
    /\ UNCHANGED <<shape, res, res2, upd2, ver, pub>>

Reparse ==
    /\ pc = "updated"
    /\ res2' = parseMod(upd.out, 0)
    /\ pc' = IF res2'.panic THEN "panic_reparse" ELSE "reparsed"
    /\ UNCHANGED <<buf, shape, res, upd, upd2, ver, pub>>

Reupdate ==
    /\ pc = "reparsed"
    /\ \E grow \in {0, MaxSpare} :
         upd2' = runUpdate(upd.out, res2.i, res2.vlen, upd.version, grow)
    /\ pc' = "done"
    /\ UNCHANGED <<buf, shape, res, upd, res2, ver, pub>>

Next == Parse \/ Update \/ Reparse \/ Reupdate

Spec == Init /\ [][Next]_vars

\* the scanner alone: parseMod on every drawn buffer
NextScan == Parse

SpecScan == Init /\ [][NextScan]_vars

-----------------------------------------------------------------------------
(* What the pieces of a written buffer say about its declaration line *)

HasSpace(s) == \E k \in 1..Len(s) : isspace(s[k])
HasComment(s) == \E k \in 1..(Len(s) - 1) : s[k] = com /\ s[k + 1] = com
Last(s) == s[Len(s)]

\* a bare token: non-empty, no whitespace, no comment start, no opening quote
BareToken(sh) ==
    /\ sh.wrap = "bare"
    /\ sh.content # <<>>
    /\ ~HasSpace(sh.content)
    /\ ~HasComment(sh.content)
    /\ sh.content[1] \notin {qot, aps}

\* a quoted string: the content between the quotes has no quote of that kind
QuotedString(sh) ==
    \/ sh.wrap = "dq" /\ \A k \in 1..Len(sh.content) : sh.content[k] # qot
    \/ sh.wrap = "sq" /\ \A k \in 1..Len(sh.content) : sh.content[k] # aps

EndsInEscape(s) == s # <<>> /\ Last(s) = esc

\* `module <identifier> //v1.2.3`, ended by \n or by the end of the buffer
WellFormedLine(sh) ==
    /\ sh.kw
    /\ BareToken(sh) \/ QuotedString(sh)
    /\ sh.sep = <<spc>>
    /\ sh.ann = GoodAnn

GoodVersion == SubSeq(GoodAnn, Len(pre) + 1, Len(GoodAnn))

Parsed == pc # "start"

C5_ScannerTotal == Parsed => ~res.panic

Rest(sh) == sh.sep \o sh.ann \o sh.tail

StartsWithComment(s) == Len(s) >= 2 /\ s[1] = com /\ s[2] = com

\* the identifier is the content as written: a bare token that what follows
\* does not extend, or a quoted string not ending in a backslash
PlainIdentifier(sh) ==
    \/ /\ BareToken(sh)
       /\ \/ Rest(sh) = <<>>
          \/ Rest(sh) # <<>> /\ isspace(Rest(sh)[1])
          \/ StartsWithComment(Rest(sh)) /\ Last(sh.content) # com
    \/ QuotedString(sh) /\ ~EndsInEscape(sh.content)

\* the offset right after the identifier (after the closing quote)
IdentEnd(sh) == Len(sh.pre) + Len(mod) + Len(identText(sh.wrap, sh.content))

\* C6 as stated: with the keyword found and no valid //v annotation after the
\* identifier, parseMod returns version "", length 0 and the offset right
\* after the identifier.
C6_AsStated ==
    (Parsed /\ shape.kw /\ PlainIdentifier(shape) /\ shape.ann # GoodAnn) =>
        /\ ~res.panic
        /\ res.version = <<>>
        /\ res.vlen = 0
        /\ res.i = IdentEnd(shape)

\* Supporting lemma: whenever parseMod returns at all, C6 holds.
C6_WhenReturning ==
    (Parsed /\ ~res.panic /\ shape.kw /\ PlainIdentifier(shape) /\ shape.ann # GoodAnn) =>
        /\ res.name = shape.content
        /\ res.version = <<>>
        /\ res.vlen = 0
        /\ res.i = IdentEnd(shape)

Annotation(v) == <<spc>> \o pre \o v

Reparsed == pc \in {"reparsed", "done", "panic_reparse"}

RoundTripHolds ==
    /\ ~res2.panic
    /\ res2.name = res.name
    /\ res2.version = upd.version
    /\ res2.i = upd.vpos
    /\ res2.vlen = Len(Annotation(upd.version))
    /\ Slice(upd.out, res2.i, res2.i + res2.vlen) = Annotation(upd.version)
    /\ pc = "done" => upd2.out.data = upd.out.data

\* C2 as stated: after updateModVersion with the scanned offset and length,
\* parseMod returns the same name, the new version and the span of the new
\* annotation, and a second update with that span changes nothing.
C2_AsStated ==
    (Reparsed /\ shape.kw /\ res.name # <<>>) => RoundTripHolds

\* Supporting lemma: the round trip holds when the line already carries a
\* valid annotation or ends right after the identifier.
C2_CleanLine ==
    (Reparsed /\ shape.kw /\ res.name # <<>>
       /\ (res.version # <<>> \/ upd.vpos = Len(upd.before) \/ upd.before[upd.vpos + 1] = lin))
    => RoundTripHolds

-----------------------------------------------------------------------------
(* Splicer alone: updateModVersion on any buffer, offset, length, version  *)

MaxBufLen == 4

SpliceBufs == SeqsUpTo({"a", "b"}, MaxBufLen)
SpliceVersions == {<<>>, <<"1">>, <<"1", ".", "2", ".", "4">>}

InitSplice ==
    /\ pc = "start"
    /\ \E d \in SpliceBufs, k \in 0..MaxSpare : buf = [data |-> d, spare |-> NULs(k)]
    /\ shape = NoShape
    /\ res = ModPanic
    /\ upd = NoUpd
    /\ res2 = ModPanic
    /\ upd2 = NoUpd
    /\ ver = NoVer
    /\ pub = NoPub

Splice ==
    /\ pc = "start"
    /\ \E vpos \in 0..len(buf), v \in SpliceVersions, grow \in {0, MaxSpare} :
         \E vlen \in 0..(len(buf) - vpos) :
            upd' = runUpdate(buf, vpos, vlen, v, grow)
    /\ buf' = [buf EXCEPT !.data = upd'.input]
    /\ pc' = "spliced"
    /\ UNCHANGED <<shape, res, res2, upd2, ver, pub>>

NextSplice == Splice

SpecSplice == InitSplice /\ [][NextSplice]_vars

\* C3: the result is the bytes before versionOffset, one space, "//v" and
\* the new version, then the bytes from versionOffset+versionLength on.
C3_SpliceResult ==
    pc = "spliced" =>
        /\ ~upd.panic
        /\ upd.out.data =
              SubSeq(upd.before, 1, upd.vpos) \o <<" ">> \o <<"/", "/", "v">>
                 \o upd.version
                 \o SubSeq(upd.before, upd.vpos + upd.vlen + 1, Len(upd.before))

C3_Witness ==
    /\ pc = "spliced"
    /\ upd.vlen = 0
    /\ upd.vpos = 2
    /\ upd.before = <<"a", "b", "b", "a">>
    /\ upd.version = <<"1">>
    /\ upd.out.data = <<"a", "b", " ", "/", "/", "v", "1", "b", "a">>

\* C4 as stated: the caller's buffer holds the same bytes after the call and
\* the returned buffer does not share its storage.
C4_AsStated ==
    pc = "spliced" => (buf.data = upd.before /\ ~upd.aliased)

\* Supporting lemma: the input is left alone exactly when the result does not
\* fit within the input's capacity.
C4_FreshWhenGrown ==
    pc = "spliced" =>
        (upd.aliased <=> Len(upd.out.data) <= Len(upd.before) + Len(buf.spare))

-----------------------------------------------------------------------------
(* Go's int (64 bits) and strconv, as pub.go uses them.  An int is          *)
(*   [neg |-> BOOLEAN, mag |-> <<decimal digits, most significant first>>]  *)
(* with no leading zero; zero is [neg |-> FALSE, mag |-> <<0>>].            *)

DigitChars == <<"0", "1", "2", "3", "4", "5", "6", "7", "8", "9">>
DigitVal(c) == (CHOOSE k \in 1..10 : DigitChars[k] = c) - 1

\* math.MaxInt64 = 9223372036854775807 and the magnitude of math.MinInt64
MaxIntMag == <<9, 2, 2, 3, 3, 7, 2, 0, 3, 6, 8, 5, 4, 7, 7, 5, 8, 0, 7>>
MinIntMag == <<9, 2, 2, 3, 3, 7, 2, 0, 3, 6, 8, 5, 4, 7, 7, 5, 8, 0, 8>>
Zero == [neg |-> FALSE, mag |-> <<0>>]
MaxInt == [neg |-> FALSE, mag |-> MaxIntMag]
MinInt == [neg |-> TRUE, mag |-> MinIntMag]

RECURSIVE StripZeros(_)
StripZeros(m) ==
    IF Len(m) > 1 /\ m[1] = 0 THEN StripZeros(Tail(m)) ELSE m

\* -1, 0, 1 as a < b, a = b, a > b, for magnitudes without leading zeros
RECURSIVE LexCmp(_, _)
LexCmp(a, b) ==
    IF a = <<>> THEN 0
    ELSE IF a[1] < b[1] THEN -1
    ELSE IF a[1] > b[1] THEN 1
    ELSE LexCmp(Tail(a), Tail(b))

MagCmp(a, b) ==
    IF Len(a) < Len(b) THEN -1
    ELSE IF Len(a) > Len(b) THEN 1
    ELSE LexCmp(a, b)

\* u > c and u < c on non-negative ints
IntGreater(u, c) == MagCmp(u.mag, c.mag) = 1
IntLess(u, c) == MagCmp(u.mag, c.mag) = -1

\* m + 1 on a magnitude
RECURSIVE MagInc(_)
MagInc(m) ==
    IF m = <<>> THEN <<1>>
    ELSE IF m[Len(m)] < 9 THEN [m EXCEPT ![Len(m)] = @ + 1]
    ELSE Append(MagInc(SubSeq(m, 1, Len(m) - 1)), 0)

\* pv + 1 on a non-negative int: the sum wraps round at 64 bits
IntInc(pv) == IF pv.mag = MaxIntMag THEN MinInt ELSE [neg |-> FALSE, mag |-> MagInc(pv.mag)]

\* strconv.Atoi on a string of digits (the components of a string that
\* validVersion accepted hold nothing else): a syntax error (value 0) for the
\* empty string or a byte that is no digit, a range error (value MaxInt64)
\* for a number past MaxInt64
Atoi(s) ==
    IF s = <<>> \/ \E k \in 1..Len(s) : ~isnum(s[k])
    THEN [val |-> Zero, err |-> TRUE]
    ELSE LET m == StripZeros([k \in 1..Len(s) |-> DigitVal(s[k])]) IN
         IF MagCmp(m, MaxIntMag) = 1
         THEN [val |-> MaxInt, err |-> TRUE]
         ELSE [val |-> [neg |-> FALSE, mag |-> m], err |-> FALSE]

\* strconv.Itoa
Itoa(n) ==
    (IF n.neg THEN <<"-">> ELSE <<>>) \o [k \in 1..Len(n.mag) |-> DigitChars[n.mag[k] + 1]]

\* strings.Split(s, "."): always at least one component
RECURSIVE Split(_)
Split(s) ==
    IF \A k \in 1..Len(s) : s[k] # "." THEN <<s>>
    ELSE LET d == CHOOSE k \in 1..Len(s) :
                     s[k] = "." /\ \A j \in 1..(k - 1) : s[j] # "."
         IN  <<SubSeq(s, 1, d - 1)>> \o Split(SubSeq(s, d + 1, Len(s)))

\* strings.Join(vs, ".")
RECURSIVE Join(_)
Join(vs) ==
    IF vs = <<>> THEN <<>>
    ELSE IF Len(vs) = 1 THEN vs[1]
    ELSE vs[1] \o <<".">> \o Join(Tail(vs))

-----------------------------------------------------------------------------
(* pub.go: nextVersion, validUserVersion, assessVersion *)

versionDefault == <<"0", ".", "0", ".", "0">>

nextVersion(cv) ==
    IF cv = <<>> THEN versionDefault
    ELSE LET vs == Split(cv)
             vi == Len(vs)
             pv == Atoi(vs[vi]).val
         IN  Join([vs EXCEPT ![vi] = Itoa(IntInc(pv))])

\* the loop of validUserVersion with the conversion error of the current
\* version's component ignored too
RECURSIVE comparePartsNoError(_, _, _)
comparePartsNoError(cparts, uparts, i) ==
    IF i > Len(cparts) THEN FALSE
    ELSE LET c == Atoi(cparts[i]).val
             u == Atoi(uparts[i]).val
         IN  IF IntGreater(u, c) THEN TRUE
             ELSE IF IntLess(u, c) THEN FALSE
             ELSE comparePartsNoError(cparts, uparts, i + 1)

\* the loop of validUserVersion from index i on.  The error tested after the
\* conversion of the user's component is still the one of the current
\* version's component, so the user's conversion never rejects.
RECURSIVE compareParts(_, _, _)
compareParts(cparts, uparts, i) ==
    IF i > Len(cparts) THEN FALSE
    ELSE LET c == Atoi(cparts[i])
             u == Atoi(uparts[i]).val
         IN  IF c.err THEN FALSE
             ELSE IF IntGreater(u, c.val) THEN TRUE
             ELSE IF IntLess(u, c.val) THEN FALSE
             ELSE compareParts(cparts, uparts, i + 1)

validUserVersion(current, user) ==
    IF ~validVersion(user) THEN FALSE
    ELSE IF current = <<>> \/ current = user THEN TRUE
    ELSE LET cparts == Split(current)
             uparts == Split(user)
         IN  IF Len(cparts) # Len(uparts) THEN FALSE
             ELSE compareParts(cparts, uparts, 1)

assessVersion(cv, uv) ==
    IF uv = <<>> THEN [nv |-> nextVersion(cv), valid |-> TRUE]
    ELSE IF ~validUserVersion(cv, uv) THEN [nv |-> <<>>, valid |-> FALSE]
    ELSE [nv |-> uv, valid |-> TRUE]

-----------------------------------------------------------------------------
(* Version decision alone: assessVersion and validVersion on drawn inputs  *)

MaxParts == 3

BigPart == <<"9", "2", "2", "3", "3", "7", "2", "0", "3", "6", "8", "5", "4", "7", "7", "5", "8", "0", "7">>
OverPart == <<"9", "2", "2", "3", "3", "7", "2", "0", "3", "6", "8", "5", "4", "7", "7", "5", "8", "0", "8">>
Parts == {<<>>, <<"0">>, <<"0", "9">>, BigPart, OverPart}

\* the strings made of 1..MaxParts parts joined by dots
VersionTexts == {Join(ps) : ps \in UNION {[1..n -> Parts] : n \in 1..MaxParts}}

BadTexts == {<<"v", ".", "0", ".", "0">>, <<"0", ".", "v", ".", "0">>,
             <<"0", "9", "v", "0", "9">>}

CurrentVersions == {<<>>} \cup {s \in VersionTexts : validVersion(s)}
UserVersions == VersionTexts \cup BadTexts

InitVersion ==
    /\ pc = "start"
    /\ \E cv \in CurrentVersions, uv \in UserVersions :
         ver = [cv |-> cv, uv |-> uv, nv |-> <<>>, valid |-> FALSE, syntax |-> FALSE]
    /\ buf = NoBuf
    /\ shape = NoShape
    /\ res = ModPanic
    /\ upd = NoUpd
    /\ res2 = ModPanic
    /\ upd2 = NoUpd
    /\ pub = NoPub

Assess ==
    /\ pc = "start"
    /\ LET r == assessVersion(ver.cv, ver.uv) IN
         ver' = [ver EXCEPT !.nv = r.nv, !.valid = r.valid]
    /\ pc' = "assessed"
    /\ UNCHANGED <<buf, shape, res, upd, res2, upd2, pub>>

Validate ==
    /\ pc = "start"
    /\ ver' = [ver EXCEPT !.syntax = validVersion(ver.uv)]
    /\ pc' = "validated"
    /\ UNCHANGED <<buf, shape, res, upd, res2, upd2, pub>>

NextDecision == Assess \/ Validate

SpecVersion == InitVersion /\ [][NextDecision]_vars

\* the number a run of digits denotes, as a magnitude of any size
DigitsOf(part) == StripZeros([k \in 1..Len(part) |-> DigitVal(part[k])])
IsNumber(part) == part # <<>> /\ \A k \in 1..Len(part) : isnum(part[k])
TextOf(m) == [k \in 1..Len(m) |-> DigitChars[m[k] + 1]]

\* a component that is not a number reads as 0
ReadAsZero(part) == IF IsNumber(part) THEN DigitsOf(part) ELSE <<0>>

\* the first differing component of u is strictly greater, under the reading
\* val of the components
FirstDifferenceGreater(c, u, val(_)) ==
    \E k \in 1..Len(c) :
       /\ MagCmp(val(u[k]), val(c[k])) = 1
       /\ \A j \in 1..(k - 1) : MagCmp(val(u[j]), val(c[j])) = 0

AcceptAsStated(cv, uv) ==
    /\ validVersion(uv)
    /\ \/ cv = <<>>
       \/ cv = uv
       \/ /\ Len(Split(cv)) = Len(Split(uv))
          /\ FirstDifferenceGreater(Split(cv), Split(uv), ReadAsZero)

Decision(accept) ==
    IF accept THEN ver.nv = ver.uv /\ ver.valid
    ELSE ver.nv = <<>> /\ ~ver.valid

Converts(part) == IsNumber(part) /\ MagCmp(DigitsOf(part), MaxIntMag) # 1
UserValue(part) ==
    IF ~IsNumber(part) THEN <<0>>
    ELSE IF MagCmp(DigitsOf(part), MaxIntMag) = 1 THEN MaxIntMag
    ELSE DigitsOf(part)

AcceptAmended(cv, uv) ==
    /\ validVersion(uv)
    /\ \/ cv = <<>>
       \/ cv = uv
       \/ LET c == Split(cv)
              u == Split(uv)
          IN  /\ Len(c) = Len(u)
              /\ \E k \in 1..Len(c) :
                   /\ \A j \in 1..k : Converts(c[j])
                   /\ MagCmp(UserValue(u[k]), DigitsOf(c[k])) = 1
                   /\ \A j \in 1..(k - 1) : MagCmp(UserValue(u[j]), DigitsOf(c[j])) = 0

ReplaceLast(parts, p) == [parts EXCEPT ![Len(parts)] = p]

\* C8 as stated: with no user version the decision is valid and returns
\* 0.0.0 for an empty current version, and otherwise the current version with
\* its final component replaced by that component's value plus one.
C8_AsStated ==
    (pc = "assessed" /\ ver.uv = <<>>) =>
        /\ ver.valid
        /\ ver.cv = <<>> => ver.nv = <<"0", ".", "0", ".", "0">>
        /\ ver.cv # <<>> =>
              LET parts == Split(ver.cv) IN
              ver.nv = Join(ReplaceLast(parts, TextOf(MagInc(DigitsOf(Last(parts))))))

\* Supporting lemma: C8 holds when the final component is below MaxInt64.
C8_BelowMaxInt ==
    (pc = "assessed" /\ ver.uv = <<>> /\ ver.cv # <<>>
       /\ MagCmp(DigitsOf(Last(Split(ver.cv))), MaxIntMag) = -1) =>
        /\ ver.valid
        /\ LET parts == Split(ver.cv) IN
           ver.nv = Join(ReplaceLast(parts, TextOf(MagInc(DigitsOf(Last(parts))))))

\* a Version of the data model: at least 5 characters, every dot-separated
\* component a non-empty run of digits
DataModelVersion(s) ==
    /\ Len(s) >= 5
    /\ \A k \in 1..Len(Split(s)) : IsNumber(Split(s)[k])

\* C9 as stated: validVersion accepts exactly the Versions of the data model.
C9_AsStated ==
    pc = "validated" => (ver.syntax <=> DataModelVersion(ver.uv))

\* Supporting lemma: validVersion accepts exactly the strings of 5 or more
\* digits and dots that start and end with a digit.
C9_DigitsAndDots ==
    pc = "validated" =>
        (ver.syntax <=>
            /\ Len(ver.uv) >= 5
            /\ \A k \in 1..Len(ver.uv) : ver.uv[k] \in Digits \cup {"."}
            /\ ver.uv[1] # "." /\ Last(ver.uv) # ".")

-----------------------------------------------------------------------------
(* pub.go: Publish -> updateVersion -> gitCommit -> goProxyList            *)

PubFiles ==
    {<<>>,
     <<"g", "o", spc, "1", lin>>,
     <<"m", "o", "d", "u", "l", "e", spc, "a">>,
     <<"m", "o", "d", "u", "l", "e", spc, "a", lin, lin, "g", "o">>,
     <<"m", "o", "d", "u", "l", "e", spc, "a", spc, "/", "/", "v", "1", ".", "2", ".", "3", lin>>,
     <<"m", "o", "d", "u", "l", "e", spc, spc, "/", "/", "v", "1", ".", "2", ".", "3", lin>>,
     <<"m", "o", "d", "u", "l", "e", spc, qot, "a", spc, "b", qot, spc, "/", "/", spc, "c", lin>>}

PubUserVersions ==
    {<<>>,
     <<"1", ".", "2", ".", "4">>,
     <<"1", ".", "2", ".", "2">>,
     <<"v", ".", "1", ".", "1">>}

InitPublish ==
    /\ pc = "start"
    /\ \E f \in PubFiles, uv \in PubUserVersions :
         pub = [NoPub EXCEPT !.file = f, !.uv = uv]
    /\ buf = NoBuf
    /\ shape = NoShape
    /\ res = ModPanic
    /\ upd = NoUpd
    /\ res2 = ModPanic
    /\ upd2 = NoUpd
    /\ ver = NoVer

\* Publish up to the call of updateVersion
PublishStart ==
    /\ pc = "start"
    /\ pub' = [pub EXCEPT !.console = Append(@, "pubInit")]
    /\ pc' = "parseModFile"
    /\ UNCHANGED <<buf, shape, res, upd, res2, upd2, ver>>

\* updateVersion: parseModFile when os.ReadFile fails
ParseModFileError ==
    /\ pc = "parseModFile"
    /\ pub' = [pub EXCEPT !.console = Append(@, "modParseErr")]
    /\ pc' = "halted"
    /\ UNCHANGED <<buf, shape, res, upd, res2, upd2, ver>>

\* updateVersion: parseModFile when os.ReadFile succeeds.  The slice it
\* returns has spare capacity (at least the byte kept for the read at end of
\* file).  A panic of the scanner ends the process.
ParseModFile ==
    /\ pc = "parseModFile"
    /\ \E k \in 1..MaxSpare :
         /\ buf' = [data |-> pub.file, spare |-> NULs(k)]
         /\ res' = parseMod(buf', 0)
    /\ pub' = [pub EXCEPT !.parsed = ~res'.panic, !.name = res'.name, !.cv = res'.version]
    /\ pc' = IF res'.panic THEN "crashed" ELSE "assessVersion"
    /\ UNCHANGED <<shape, upd, res2, upd2, ver>>

\* updateVersion: Console(modDone), assessVersion and the return on !valid
AssessVersion ==
    /\ pc = "assessVersion"
    /\ LET a == assessVersion(pub.cv, pub.uv) IN
         pub' = [pub EXCEPT !.nv = a.nv, !.valid = a.valid, !.assessed = TRUE,
                            !.console = @ \o (IF a.valid
                                              THEN <<"modDone", "versionNew", "pubUpdate">>
                                              ELSE <<"modDone", "versionErr">>)]
    /\ pc' = IF pub'.valid THEN "updateModFile" ELSE "halted"
    /\ UNCHANGED <<buf, shape, res, upd, res2, upd2, ver>>

\* updateVersion: updateModFile and the return.  valid is already true, so
\* Publish goes on whether os.WriteFile succeeded (writeOk) or not.
UpdateModFile ==
    /\ pc = "updateModFile"
    /\ upd' = runUpdate(buf, res.i, res.vlen, pub.nv, 0)
    /\ \E writeOk \in BOOLEAN :
         pub' = [pub EXCEPT
                   !.writes = Append(@, [bytes |-> upd'.out.data, ok |-> writeOk]),
                   !.file = IF writeOk THEN upd'.out.data ELSE @,
                   !.console = Append(@, IF writeOk THEN "done" ELSE "modUpdateErr")]
    /\ pc' = "gitCommit"
    /\ UNCHANGED <<buf, shape, res, res2, upd2, ver>>

GitCommit ==
    /\ pc = "gitCommit"
    /\ pub' = [pub EXCEPT
                 !.console = @ \o <<"gitMsg", "done">>,
                 !.cmds = @ \o <<"git add", "git commit", "git tag", "git push tag", "git push main">>]
    /\ pc' = "goProxyList"
    /\ UNCHANGED <<buf, shape, res, upd, res2, upd2, ver>>

GoProxyList ==
    /\ pc = "goProxyList"
    /\ pub' = [pub EXCEPT
                 !.console = @ \o <<"goMsg", "done", "pubComplete">>,
                 !.cmds = Append(@, "go list")]
    /\ pc' = "published"
    /\ UNCHANGED <<buf, shape, res, upd, res2, upd2, ver>>

NextPublish ==
    \/ PublishStart
    \/ ParseModFileError
    \/ ParseModFile
    \/ AssessVersion
    \/ UpdateModFile
    \/ GitCommit
    \/ GoProxyList

SpecPublish == InitPublish /\ [][NextPublish]_vars

\* C10 as stated: once the scan yields an empty name, or the version decision
\* returns valid = false, updateModFile is never called and no git or GOPROXY
\* command is run.
C10_AsStated ==
    ((pub.parsed /\ pub.name = <<>>) \/ (pub.assessed /\ ~pub.valid)) =>
        (pub.writes = <<>> /\ pub.cmds = <<>>)

\* Supporting lemma: an invalid version does halt the workflow.
C10_InvalidHalts ==
    (pub.assessed /\ ~pub.valid) =>
        (pub.writes = <<>> /\ pub.cmds = <<>> /\ pc = "halted")

====
